---- MODULE Spec2Model ----
(***************************************************************************)
(* Model of the deviceauth token agent (jwt_agent.go) and of the schema    *)
(* migration 1.5.0 exercised by TestMigration_1_5_0.                       *)
(*                                                                         *)
(* Optional values (Go nil pointers, absent JSON claims) are sequences of  *)
(* length 0 or 1: <<>> is nil/absent, <<v>> is the value v.                *)
(***************************************************************************)
EXTENDS Integers, Sequences, FiniteSets, TLC

VARIABLES
    now,      \* time.Now().Unix()
    cfg,      \* the JWTAgentConfig of the latest NewJWTAgent call (<<>> before any)
    agent,    \* the *JWTAgent NewJWTAgent returned (<<>> is nil)
    newErr,   \* the error NewJWTAgent returned
    issued,   \* what the latest GenerateTokenSignRS256 call returned, and when
    last,     \* what the outstanding ValidateTokenSignRS256 call returned, and when
    devices,  \* the devices collection: device id -> <<>> or <<row>>
    authsets, \* the auth sets collection, in insertion order
    runs,     \* how many times migration 1.5.0 Up has completed
    upErr,    \* the error the latest Up returned
    firstUp   \* the two collections before and after the first completed Up

jwtVars == <<now, cfg, agent, newErr, issued, last>>
migVars == <<devices, authsets, runs, upErr, firstUp>>
vars == <<now, cfg, agent, newErr, issued, last, devices, authsets, runs, upErr, firstUp>>

-----------------------------------------------------------------------------
(* Bounds *)

\* Unix time at which the modelled run starts
Epoch == 100
\* how many seconds the clock advances
MaxTicks == 2

Times == Epoch .. (Epoch + MaxTicks)
\* ExpirationTimeout values of the configuration (seconds)
Timeouts == {-1, 0, 1}
DevIds == {"d1", "d2"}
\* values uuid.NewV4().String() may return
TokenIds == {"j1", "j2"}
Issuer == "mender"

-----------------------------------------------------------------------------
(* Errors: msg is the error's own message, Errors the ValidationError       *)
(* bitmask of the jwt error it is or wraps (as a set of flag names), Inner  *)
(* the message of the wrapped cause.                                        *)

Nil == [msg |-> "", Errors |-> {}, Inner |-> ""]
ErrorsNew(m) == [msg |-> m, Errors |-> {}, Inner |-> ""]
ErrorsWrap(e, m) == [msg |-> m, Errors |-> e.Errors, Inner |-> IF e.Inner # "" THEN e.Inner ELSE e.msg]

ErrTokenExpired == ErrorsNew("jwt: token expired")
ErrTokenInvalid == ErrorsNew("jwt: token ivalid")

ErrMsgPrivKeyReadFailed == "failed to read server private key file"
ErrMsgPrivKeyNotPEMEncoded == "server private key not PEM-encoded"
ErrMsgCreateTokenFailed == "failed to create token"
ErrMsgUnknownKeyType == "unknown server private key type"
ErrMsgUnexpectedSigningMethod == "Unexpected signing method"

\* jwt.ValidationError: Errors is the bitmask, Inner the cause
ValidationError(flags, inner) == [msg |-> "", Errors |-> flags, Inner |-> inner]

-----------------------------------------------------------------------------
(* Key files *)

\* What ioutil.ReadFile, pem.Decode and x509.ParsePKCS1PrivateKey find at each
\* path: whether the file reads, whether a PEM block decodes, the block's
\* type, and the key the block's bytes parse to as PKCS#1 (<<>>: parse error).
\* "kweak" is a parseable RSA key too short to sign a SHA-256 digest.
FileSystem ==
    [ missing     |-> [readable |-> FALSE, pem |-> FALSE, type |-> "", pkcs1 |-> <<>>],
      garbage     |-> [readable |-> TRUE, pem |-> FALSE, type |-> "", pkcs1 |-> <<>>],
      pkcs8       |-> [readable |-> TRUE, pem |-> TRUE, type |-> "PRIVATE KEY", pkcs1 |-> <<>>],
      mislabelled |-> [readable |-> TRUE, pem |-> TRUE, type |-> "PRIVATE KEY", pkcs1 |-> <<"k1">>],
      truncated   |-> [readable |-> TRUE, pem |-> TRUE, type |-> "RSA PRIVATE KEY", pkcs1 |-> <<>>],
      weak        |-> [readable |-> TRUE, pem |-> TRUE, type |-> "RSA PRIVATE KEY", pkcs1 |-> <<"kweak">>],
      key         |-> [readable |-> TRUE, pem |-> TRUE, type |-> "RSA PRIVATE KEY", pkcs1 |-> <<"k1">>] ]

Paths == DOMAIN FileSystem

\* keys that sign tokens: the server's, and one the server does not hold
SigningKeys == {"k1", "k2"}

\* getRSAPrivKey without the check of the block type
getRSAPrivKey_NoTypeCheck(privKeyPath) ==
    LET f == FileSystem[privKeyPath] IN
    IF ~f.readable
    THEN [key |-> <<>>, err |-> ErrorsWrap(ErrorsNew("open: no such file"), ErrMsgPrivKeyReadFailed)]
    ELSE IF ~f.pem
    THEN [key |-> <<>>, err |-> ErrorsNew(ErrMsgPrivKeyNotPEMEncoded)]
    ELSE IF f.pkcs1 = <<>>
    THEN [key |-> <<>>, err |-> ErrorsNew("x509: failed to parse private key")]
    ELSE [key |-> f.pkcs1, err |-> Nil]

getRSAPrivKey(privKeyPath) ==
    LET f == FileSystem[privKeyPath] IN
    IF ~f.readable
    THEN [key |-> <<>>, err |-> ErrorsWrap(ErrorsNew("open: no such file"), ErrMsgPrivKeyReadFailed)]
    ELSE IF ~f.pem
    THEN [key |-> <<>>, err |-> ErrorsNew(ErrMsgPrivKeyNotPEMEncoded)]
    ELSE IF f.type # "RSA PRIVATE KEY"
    THEN [key |-> <<>>, err |-> ErrorsNew(ErrMsgUnknownKeyType)]
    ELSE IF f.pkcs1 = <<>>
    THEN [key |-> <<>>, err |-> ErrorsNew("x509: failed to parse private key")]
    ELSE [key |-> f.pkcs1, err |-> Nil]

JWTAgentConfig == [ServerPrivKeyPath : Paths, ExpirationTimeout : Timeouts, Issuer : {Issuer}]

\* the (agent, error) pair NewJWTAgent returns
NewJWTAgentResult(c) ==
    LET r == getRSAPrivKey(c.ServerPrivKeyPath) IN
    IF r.err # Nil
    THEN [agent |-> <<>>, err |-> r.err]
    ELSE [agent |-> <<[privKey |-> r.key[1], issuer |-> c.Issuer, expTimeout |-> c.ExpirationTimeout]>>,
          err |-> Nil]

-----------------------------------------------------------------------------
(* Token strings: header.claims.signature *)

\* alg values of the header; <<>> is a header with no alg
RSAMethods == {"RS256", "RS384", "RS512"}
RegisteredMethods == RSAMethods \cup {"PS256", "PS384", "PS512", "HS256", "HS384", "HS512",
                                     "ES256", "ES384", "ES512", "none"}

PublicKey(priv) == <<"pub", priv>>

\* the bytes a signature covers: the first two segments
SigningInput(hdr, claims) == <<hdr, claims>>

\* SigningMethod.Sign: the signature names what was signed, how and by whom
Sign(alg, input, key) == [alg |-> alg, input |-> input, key |-> key]

\* rsa.SignPKCS1v15 fails when the key is too short for the digest
CanSign(key) == key # "kweak"

\* SigningMethodRSA.Verify
Verify(alg, input, sig, pub) ==
    /\ sig.alg = alg
    /\ sig.input = input
    /\ PublicKey(sig.key) = pub

\* json.Marshal of jwt.StandardClaims: every field is omitempty
StandardClaimsJSON(c) ==
    [ iss |-> IF c.Issuer = "" THEN <<>> ELSE <<c.Issuer>>,
      sub |-> IF c.Subject = "" THEN <<>> ELSE <<c.Subject>>,
      exp |-> IF c.ExpiresAt = 0 THEN <<>> ELSE <<c.ExpiresAt>>,
      nbf |-> <<>>,
      iat |-> <<>>,
      jti |-> IF c.Id = "" THEN <<>> ELSE <<"string", c.Id>> ]

\* Token.SignedString
SignedString(alg, claims, key) ==
    LET hdr == [alg |-> <<alg>>] IN
    [parts |-> 3, json |-> TRUE, hdr |-> hdr, claims |-> claims,
     sig |-> Sign(alg, SigningInput(hdr, claims), key)]

NewToken(jti, devId, tokenString) == [Id |-> jti, DevId |-> devId, Token |-> tokenString]

\* the claims with the timeout subtracted from the issue time
TokenClaims_Subtract(j, devId, jti, t) ==
    [Issuer |-> j.issuer, ExpiresAt |-> t - j.expTimeout, Subject |-> devId, Id |-> jti]

\* the claims GenerateTokenSignRS256 sets; the int64 sum does not wrap for
\* the modelled times and timeouts
TokenClaims(j, devId, jti, t) ==
    [Issuer |-> j.issuer, ExpiresAt |-> t + j.expTimeout, Subject |-> devId, Id |-> jti]

\* the (token, error) pair GenerateTokenSignRS256 returns at time t when
\* generateTokenId returns jti
GenerateTokenSignRS256(j, devId, jti, t) ==
    IF ~CanSign(j.privKey)
    THEN [token |-> <<>>, err |-> ErrorsWrap(ErrorsNew("crypto/rsa: message too long"), ErrMsgCreateTokenFailed)]
    ELSE [token |-> <<NewToken(jti, devId,
                        SignedString("RS256", StandardClaimsJSON(TokenClaims(j, devId, jti, t)), j.privKey))>>,
          err |-> Nil]

-----------------------------------------------------------------------------
(* Validation *)

\* a Keyfunc that hands out the key whatever the signing method
KeyFunc_AnyMethod(j, alg) == [key |-> <<PublicKey(j.privKey)>>, err |-> Nil]

\* the Keyfunc ValidateTokenSignRS256 passes to jwt.Parse
KeyFunc(j, alg) ==
    IF alg \notin RSAMethods
    THEN [key |-> <<>>, err |-> ErrorsNew(ErrMsgUnexpectedSigningMethod)]
    ELSE [key |-> <<PublicKey(j.privKey)>>, err |-> Nil]

\* the expiry comparison the wrong way round
verifyExp_Flipped(exp, t) == exp = <<>> \/ exp[1] = 0 \/ t >= exp[1]

\* verifyExp / verifyNbf / verifyIat of jwt-go with required = false: an
\* absent claim and the value 0 pass
verifyExp(exp, t) == exp = <<>> \/ exp[1] = 0 \/ t <= exp[1]
verifyNbf(nbf, t) == nbf = <<>> \/ nbf[1] = 0 \/ t >= nbf[1]
verifyIat(iat, t) == iat = <<>> \/ iat[1] = 0 \/ t >= iat[1]

\* MapClaims.Valid: the bitmask of the time claims that fail
ClaimsValid(claims, t) ==
    (IF verifyExp(claims.exp, t) THEN {} ELSE {"Expired"})
    \cup (IF verifyIat(claims.iat, t) THEN {} ELSE {"IssuedAt"})
    \cup (IF verifyNbf(claims.nbf, t) THEN {} ELSE {"NotValidYet"})

\* jwt.Parse(tokenString, keyFunc) at time t: whether token.Valid, and the
\* error. The claims are validated before the signature is verified, and the
\* failures of both are or-ed into one ValidationError.
Parse(j, tokenString, t) ==
    IF tokenString.parts # 3
    THEN [Valid |-> FALSE, err |-> ValidationError({"Malformed"}, "token contains an invalid number of segments")]
    ELSE IF ~tokenString.json
    THEN [Valid |-> FALSE, err |-> ValidationError({"Malformed"}, "invalid character")]
    ELSE IF tokenString.hdr.alg = <<>>
    THEN [Valid |-> FALSE, err |-> ValidationError({"Unverifiable"}, "signing method (alg) is unspecified.")]
    ELSE IF tokenString.hdr.alg[1] \notin RegisteredMethods
    THEN [Valid |-> FALSE, err |-> ValidationError({"Unverifiable"}, "signing method (alg) is unavailable.")]
    ELSE LET k == KeyFunc(j, tokenString.hdr.alg[1]) IN
         IF k.err # Nil
         THEN [Valid |-> FALSE, err |-> ValidationError({"Unverifiable"}, k.err.msg)]
         ELSE LET claimErrs == ClaimsValid(tokenString.claims, t)
                  sigOk == Verify(tokenString.hdr.alg[1],
                                  SigningInput(tokenString.hdr, tokenString.claims),
                                  tokenString.sig, k.key[1])
                  flags == claimErrs \cup (IF sigOk THEN {} ELSE {"SignatureInvalid"})
                  inner == IF ~sigOk THEN "crypto/rsa: verification error"
                           ELSE IF "NotValidYet" \in claimErrs THEN "token is not valid yet"
                           ELSE IF "IssuedAt" \in claimErrs THEN "Token used before issued"
                           ELSE "Token is expired"
              IN IF flags = {}
                 THEN [Valid |-> TRUE, err |-> Nil]
                 ELSE [Valid |-> FALSE, err |-> ValidationError(flags, inner)]

\* ValidateTokenSignRS256 without the ErrTokenExpired branch
Validate_NoExpiredBranch(j, tokenString, t) ==
    LET p == Parse(j, tokenString, t) IN
    IF p.err # Nil
    THEN [jti |-> "", err |-> ErrorsWrap(p.err, "token invalid")]
    ELSE IF p.Valid /\ tokenString.claims.jti # <<>> /\ tokenString.claims.jti[1] = "string"
         THEN [jti |-> tokenString.claims.jti[2], err |-> Nil]
         ELSE [jti |-> "", err |-> ErrorsNew("Token invalid")]

\* ValidateTokenSignRS256 returning the jti claim whatever its type
Validate_NoStringCheck(j, tokenString, t) ==
    LET p == Parse(j, tokenString, t) IN
    IF p.err # Nil
    THEN IF "Expired" \in p.err.Errors
         THEN [jti |-> "", err |-> ErrTokenExpired]
         ELSE [jti |-> "", err |-> ErrorsWrap(p.err, "token invalid")]
    ELSE IF p.Valid /\ tokenString.claims.jti # <<>>
         THEN [jti |-> tokenString.claims.jti[2], err |-> Nil]
         ELSE [jti |-> "", err |-> ErrorsNew("Token invalid")]

\* the (jti, error) pair ValidateTokenSignRS256 returns at time t
ValidateTokenSignRS256(j, tokenString, t) ==
    LET p == Parse(j, tokenString, t) IN
    IF p.err # Nil
    THEN IF "Expired" \in p.err.Errors
         THEN [jti |-> "", err |-> ErrTokenExpired]
         ELSE [jti |-> "", err |-> ErrorsWrap(p.err, "token invalid")]
    ELSE IF p.Valid /\ tokenString.claims.jti # <<>> /\ tokenString.claims.jti[1] = "string"
         THEN [jti |-> tokenString.claims.jti[2], err |-> Nil]
         ELSE [jti |-> "", err |-> ErrorsNew("Token invalid")]

-----------------------------------------------------------------------------
(* The token strings presented for validation *)

\* header algorithms: two RSA methods, two registered non-RSA methods, one
\* name jwt-go does not know
HeaderAlgs == {"RS256", "RS512", "HS256", "none", "XX"}
Headers == {[alg |-> <<>>]} \cup {[alg |-> <<a>>] : a \in HeaderAlgs}

ExpValues == {<<>>} \cup {<<e>> : e \in (Epoch - 1) .. (Epoch + MaxTicks + 1)}
\* (nbf, iat): both absent, or one of them a second after the start
TimeClaims == {<<<<>>, <<>>>>, <<<<Epoch + 1>>, <<>>>>, <<<<>>, <<Epoch + 1>>>>}
JtiValues == {<<>>, <<"number", "7">>} \cup {<<"string", i>> : i \in TokenIds}

ClaimSets(subs) ==
    {[iss |-> <<Issuer>>, sub |-> <<s>>, exp |-> e, nbf |-> tc[1], iat |-> tc[2], jti |-> i] :
        s \in subs, e \in ExpValues, tc \in TimeClaims, i \in JtiValues}

AlgName(hdr) == IF hdr.alg = <<>> THEN "" ELSE hdr.alg[1]

\* the claims of a token the server signed, whose signature a forger reuses
StolenClaims ==
    [iss |-> <<Issuer>>, sub |-> <<"d1">>, exp |-> <<Epoch + MaxTicks + 1>>, nbf |-> <<>>, iat |-> <<>>,
     jti |-> <<"string", "j1">>]

\* signatures a token string may carry: by either key over its own first two
\* segments, or the server's signature over other claims
Signatures(hdr, claims) ==
    {Sign(AlgName(hdr), SigningInput(hdr, claims), k) : k \in SigningKeys}
    \cup {Sign(AlgName(hdr), SigningInput(hdr, StolenClaims), "k1")}

WellFormed(subs) ==
    UNION {{[parts |-> 3, json |-> TRUE, hdr |-> h, claims |-> c, sig |-> s] : s \in Signatures(h, c)} :
            h \in Headers, c \in ClaimSets(subs)}

\* a string with two segments
Malformed ==
    [parts |-> 2, json |-> FALSE, hdr |-> [alg |-> <<>>], claims |-> StolenClaims,
     sig |-> Sign("", SigningInput([alg |-> <<>>], StolenClaims), "k2")]

\* three segments whose claims segment is not the JSON of an object (the
\* claims field stands for the undecodable bytes), under every header
Undecodable ==
    {[parts |-> 3, json |-> FALSE, hdr |-> h, claims |-> StolenClaims,
      sig |-> Sign(AlgName(h), SigningInput(h, StolenClaims), "k1")] : h \in Headers}

\* every string GenerateTokenSignRS256 can return
Generated ==
    {SignedString("RS256", StandardClaimsJSON(TokenClaims([privKey |-> "k1", issuer |-> Issuer, expTimeout |-> x], d, i, t)), "k1") :
        x \in Timeouts, d \in DevIds, i \in TokenIds, t \in Times}

TokenStrings == WellFormed({"d1"}) \cup Generated \cup Undecodable \cup {Malformed}

-----------------------------------------------------------------------------
(* Actions of the token agent *)

\* main constructs the agent from its configuration
NewJWTAgent(c) ==
    /\ agent = <<>>
    /\ cfg' = <<c>>
    /\ agent' = NewJWTAgentResult(c).agent
    /\ newErr' = NewJWTAgentResult(c).err
    /\ UNCHANGED <<now, issued, last>>
    /\ UNCHANGED migVars

Generate(devId, jti) ==
    /\ agent # <<>>
    /\ last = <<>>
    /\ LET r == GenerateTokenSignRS256(agent[1], devId, jti, now) IN
       issued' = <<[token |-> r.token, err |-> r.err, at |-> now]>>
    /\ UNCHANGED <<now, cfg, agent, newErr, last>>
    /\ UNCHANGED migVars

Validate(tokenString) ==
    /\ agent # <<>>
    /\ last = <<>>
    /\ LET r == ValidateTokenSignRS256(agent[1], tokenString, now) IN
       last' = <<[token |-> tokenString, jti |-> r.jti, err |-> r.err, at |-> now]>>
    /\ UNCHANGED <<now, cfg, agent, newErr, issued>>
    /\ UNCHANGED migVars

\* the caller of ValidateTokenSignRS256 is done with what it returned
Return ==
    /\ last # <<>>
    /\ last' = <<>>
    /\ UNCHANGED <<now, cfg, agent, newErr, issued>>
    /\ UNCHANGED migVars

Tick ==
    /\ now < Epoch + MaxTicks
    /\ now' = now + 1
    /\ UNCHANGED <<cfg, agent, newErr, issued, last>>
    /\ UNCHANGED migVars

Init ==
    /\ now = Epoch
    /\ cfg = <<>>
    /\ agent = <<>>
    /\ newErr = Nil
    /\ issued = <<>>
    /\ last = <<>>
    /\ devices = <<>>
    /\ authsets = <<>>
    /\ runs = 0
    /\ upErr = Nil
    /\ firstUp = <<>>

Next ==
    \/ \E c \in JWTAgentConfig : NewJWTAgent(c)
    \/ \E d \in DevIds, i \in TokenIds : Generate(d, i)
    \/ \E s \in TokenStrings : Validate(s)
    \/ Return
    \/ Tick

Spec == Init /\ [][Next]_vars

-----------------------------------------------------------------------------
(* Claims about the token agent *)

\* the server's public key verifies the token string's signature
SignatureVerifies(j, tokenString) ==
    /\ tokenString.parts = 3
    /\ tokenString.json
    /\ tokenString.hdr.alg # <<>>
    /\ tokenString.hdr.alg[1] \in RSAMethods
    /\ Verify(tokenString.hdr.alg[1], SigningInput(tokenString.hdr, tokenString.claims),
              tokenString.sig, PublicKey(j.privKey))

\* the failure is one of the two "token invalid" errors of ValidateTokenSignRS256
IsTokenInvalid(e) == e.msg \in {"token invalid", "Token invalid"}

\* the latest validation was of the latest issued token string
ValidatedIssued ==
    /\ agent # <<>>
    /\ issued # <<>>
    /\ issued[1].err = Nil
    /\ last # <<>>
    /\ last[1].token = issued[1].token[1].Token

\* C1: a token string validated in the second it was issued, by an agent
\* whose timeout is not negative, yields no error and the jti of the Token
\* the issuance returned.
C1_RoundTrip ==
    (ValidatedIssued /\ agent[1].expTimeout >= 0 /\ last[1].at = issued[1].at)
        => (last[1].err = Nil /\ last[1].jti = issued[1].token[1].Id)

C1_Witness ==
    /\ ValidatedIssued
    /\ agent[1].expTimeout = 0
    /\ last[1].at = issued[1].at
    /\ issued[1].token[1].DevId = "d2"
    /\ last[1].jti = "j2"

\* C2: an issued token validated by an agent whose timeout is -1, or after
\* issue time + timeout has passed, fails with ErrTokenExpired and no jti.
C2_Expiry ==
    (ValidatedIssued /\ (agent[1].expTimeout = -1 \/ last[1].at > issued[1].at + agent[1].expTimeout))
        => (last[1].err = ErrTokenExpired /\ last[1].jti = "")

C2_Witness ==
    /\ ValidatedIssued
    /\ agent[1].expTimeout = 1
    /\ last[1].at > issued[1].at + 1
    /\ last[1].err = ErrTokenExpired

\* the string decodes, and its header names an algorithm that is none of
\* RS256, RS384, RS512
NonRSAHeader(tokenString) ==
    /\ tokenString.parts = 3
    /\ tokenString.json
    /\ tokenString.hdr.alg # <<>>
    /\ tokenString.hdr.alg[1] \notin RSAMethods

C7_ExpiredOnlyIfVerified ==
    (last # <<>> /\ last[1].err = ErrTokenExpired)
        => SignatureVerifies(agent[1], last[1].token)

NotExpired(tokenString, t) ==
    tokenString.claims.exp = <<>> \/ t <= tokenString.claims.exp[1]

JtiIsString(tokenString) ==
    tokenString.claims.jti # <<>> /\ tokenString.claims.jti[1] = "string"

\* nbf and iat, when present, are not after t
TimeClaimsPassed(tokenString, t) ==
    /\ tokenString.claims.nbf = <<>> \/ tokenString.claims.nbf[1] <= t
    /\ tokenString.claims.iat = <<>> \/ tokenString.claims.iat[1] <= t

\* no jti comes with an error
NoJtiWithError == last # <<>> /\ last[1].err # Nil => last[1].jti = ""

\* C8 as stated: a verified, unexpired token yields its jti and no error
\* exactly when the jti claim is a string, and TokenInvalid otherwise; no jti
\* comes with an error.
C8_Original ==
    /\ (last # <<>> /\ SignatureVerifies(agent[1], last[1].token) /\ NotExpired(last[1].token, last[1].at))
        => /\ JtiIsString(last[1].token)
                => (last[1].err = Nil /\ last[1].jti = last[1].token.claims.jti[2])
           /\ ~JtiIsString(last[1].token)
                => (IsTokenInvalid(last[1].err) /\ last[1].jti = "")
    /\ NoJtiWithError

\* C8 amended: a verified, unexpired token whose nbf and iat claims are not
\* in the future yields its jti and no error exactly when the jti claim is a
\* string, and TokenInvalid otherwise; a verified, unexpired token whose nbf
\* or iat is in the future fails with TokenInvalid; no jti comes with an error.
C8_JtiExtraction ==
    /\ (last # <<>> /\ SignatureVerifies(agent[1], last[1].token) /\ NotExpired(last[1].token, last[1].at))
        => /\ (JtiIsString(last[1].token) /\ TimeClaimsPassed(last[1].token, last[1].at))
                => (last[1].err = Nil /\ last[1].jti = last[1].token.claims.jti[2])
           /\ (~JtiIsString(last[1].token) \/ ~TimeClaimsPassed(last[1].token, last[1].at))
                => (IsTokenInvalid(last[1].err) /\ last[1].jti = "")
    /\ NoJtiWithError

\* a verified, unexpired token whose jti is not a string
C8_Witness ==
    /\ last # <<>>
    /\ SignatureVerifies(agent[1], last[1].token)
    /\ NotExpired(last[1].token, last[1].at)
    /\ TimeClaimsPassed(last[1].token, last[1].at)
    /\ last[1].token.claims.jti = <<"number", "7">>
    /\ last[1].err = ErrorsNew("Token invalid")

\* C9: key loading fails in the order read, PEM-decode, block type, PKCS#1
\* parse, each with its own error, and NewJWTAgent returns an agent only with
\* the key the file parses to.
C9_KeyLoading ==
    cfg # <<>> =>
        LET f == FileSystem[cfg[1].ServerPrivKeyPath] IN
        /\ ~f.readable => (newErr.msg = ErrMsgPrivKeyReadFailed /\ agent = <<>>)
        /\ (f.readable /\ ~f.pem) => (newErr = ErrorsNew(ErrMsgPrivKeyNotPEMEncoded) /\ agent = <<>>)
        /\ (f.readable /\ f.pem /\ f.type # "RSA PRIVATE KEY")
                => (newErr = ErrorsNew(ErrMsgUnknownKeyType) /\ agent = <<>>)
        /\ (f.readable /\ f.pem /\ f.type = "RSA PRIVATE KEY" /\ f.pkcs1 = <<>>)
                => (newErr.msg \notin {"", ErrMsgPrivKeyReadFailed, ErrMsgPrivKeyNotPEMEncoded, ErrMsgUnknownKeyType}
                    /\ agent = <<>>)
        /\ agent # <<>> => (newErr = Nil /\ f.pkcs1 = <<agent[1].privKey>> /\ f.type = "RSA PRIVATE KEY")
        /\ agent = <<>> => newErr # Nil

\* a block of the wrong type whose bytes would parse as a PKCS#1 key
C9_Witness ==
    /\ cfg # <<>>
    /\ cfg[1].ServerPrivKeyPath = "mislabelled"
    /\ agent = <<>>
    /\ newErr = ErrorsNew(ErrMsgUnknownKeyType)

\* the validation failed because the token is expired or its signature is bad
DeadVerdict(e) == e = ErrTokenExpired \/ "SignatureInvalid" \in e.Errors

\* C10: once a validation of a token string failed as expired or badly
\* signed, a validation of the same string by the same agent at the time of
\* any later step fails too; and a validation made after the token's exp
\* fails.
C10_OneWay ==
    [][ /\ (last # <<>> /\ DeadVerdict(last[1].err) /\ agent' # <<>>)
            => ValidateTokenSignRS256(agent'[1], last[1].token, now').err # Nil
        /\ (last' # <<>> /\ last'[1].token.parts = 3 /\ last'[1].token.json
                /\ last'[1].token.claims.exp # <<>>
                /\ last'[1].at > last'[1].token.claims.exp[1])
            => last'[1].err # Nil ]_vars

\* time has passed since a correctly signed token was found expired
C10_Witness ==
    /\ last # <<>>
    /\ last[1].err = ErrTokenExpired
    /\ SignatureVerifies(agent[1], last[1].token)
    /\ last[1].token.claims.exp = <<last[1].at - 1>>
    /\ now > last[1].at

-----------------------------------------------------------------------------
(* Migration 1.5.0: devices and auth sets *)

\* how many auth sets are inserted
MaxAuthSets == 2
\* how many times Up completes
MaxRuns == 2

MigDevIds == {"1", "2"}
Statuses == {"accepted", "pending", "rejected"}

\* Raw identity data: the attribute/value pairs in the order of the text.
\* IdDataSwapped holds the attributes of IdDataPlain in another order;
\* IdDataBroken does not decode.
IdDataPlain == <<<<"sn", "0001">>, <<"mac", "00:00:00:01">>>>
IdDataSwapped == <<<<"mac", "00:00:00:01">>, <<"sn", "0001">>>>
IdDataBroken == <<<<"sn">>>>
IdDataValues == {IdDataPlain, IdDataSwapped, IdDataBroken}

ErrMalformedIdentity == ErrorsNew("MalformedIdentity")
ErrMultipleAcceptedAuthSets == ErrorsNew("MultipleAcceptedAuthSets")
ErrDeviceNotFound == ErrorsNew("DeviceNotFound")

\* sha256 of the raw bytes: distinct texts have distinct digests
Sha256(idData) == <<"sha256", idData>>

Decodes(idData) == \A i \in DOMAIN idData : Len(idData[i]) = 2

\* the canonical decoding: attribute -> value, whatever the order of the text
decode(idData) == {idData[i] : i \in DOMAIN idData}

\* a model.Device as the test inserts it: no derived identity fields yet
Device(id, idData, status) ==
    [Id |-> id, IdData |-> idData, PubKey |-> <<"device key", id>>, Status |-> status,
     Decommissioning |-> (id = "2"), CreatedTs |-> Epoch, UpdatedTs |-> Epoch,
     IdDataStruct |-> <<>>, IdDataSha256 |-> <<>>]

\* a model.AuthSet as the test inserts it
AuthSet(id, devId, idData, status) ==
    [Id |-> id, DeviceId |-> devId, IdData |-> idData, PubKey |-> <<"auth set key", devId>>,
     Status |-> status, Timestamp |-> Epoch, IdDataStruct |-> <<>>, IdDataSha256 |-> <<>>]

\* the device rows a test may insert
DeviceRows == {Device(id, data, st) : id \in MigDevIds, data \in IdDataValues, st \in Statuses}

\* the auth set rows a test may insert, numbered in insertion order
AuthSetRows ==
    {AuthSet(id, dev, data, st) :
        id \in 1 .. MaxAuthSets, dev \in MigDevIds, data \in IdDataValues, st \in Statuses}

\* the statuses of the auth sets of device devId among asets
StatusesOf(asets, devId) ==
    {asets[i].Status : i \in {k \in DOMAIN asets : asets[k].DeviceId = devId}}

AcceptedCount(asets, devId) ==
    Cardinality({k \in DOMAIN asets : asets[k].DeviceId = devId /\ asets[k].Status = "accepted"})

\* the derivation rule with pending taking precedence
DeriveStatus_PendingFirst(statuses) ==
    IF "pending" \in statuses THEN "pending"
    ELSE IF "accepted" \in statuses THEN "accepted"
    ELSE "rejected"

\* the derivation rule: accepted, else pending, else rejected
DeriveStatus(statuses) ==
    IF "accepted" \in statuses THEN "accepted"
    ELSE IF "pending" \in statuses THEN "pending"
    ELSE "rejected"

\* the (status, error) pair GetDeviceStatus returns
GetDeviceStatus(devs, asets, devId) ==
    IF devs[devId] = <<>>
    THEN [status |-> "", err |-> ErrDeviceNotFound]
    ELSE IF AcceptedCount(asets, devId) > 1
    THEN [status |-> "", err |-> ErrMultipleAcceptedAuthSets]
    ELSE [status |-> DeriveStatus(StatusesOf(asets, devId)), err |-> Nil]

\* the auth set row the backfill leaves
MigrateAuthSet(row) ==
    [row EXCEPT !.IdDataStruct = <<decode(row.IdData)>>, !.IdDataSha256 = <<Sha256(row.IdData)>>]

\* a backfill that also copies the accepted auth set's key onto the device
MigrateDevice_CopyKey(row, asets, t) ==
    LET st == DeriveStatus(StatusesOf(asets, row.Id))
        derived == [row EXCEPT !.IdDataStruct = <<decode(row.IdData)>>,
                               !.IdDataSha256 = <<Sha256(row.IdData)>>,
                               !.Status = st,
                               !.PubKey = IF st = "accepted" THEN <<"auth set key", row.Id>> ELSE row.PubKey]
    IN IF derived = row THEN row ELSE [derived EXCEPT !.UpdatedTs = t]

\* a backfill that stamps every device it visits
MigrateDevice_AlwaysStamp(row, asets, t) ==
    [row EXCEPT !.IdDataStruct = <<decode(row.IdData)>>,
                !.IdDataSha256 = <<Sha256(row.IdData)>>,
                !.Status = DeriveStatus(StatusesOf(asets, row.Id)),
                !.UpdatedTs = t]

\* the device row the backfill leaves at time t: derived fields recomputed,
\* UpdatedTs advanced when one of them changed
MigrateDevice(row, asets, t) ==
    LET derived == [row EXCEPT !.IdDataStruct = <<decode(row.IdData)>>,
                               !.IdDataSha256 = <<Sha256(row.IdData)>>,
                               !.Status = DeriveStatus(StatusesOf(asets, row.Id))]
    IN IF derived = row THEN row ELSE [derived EXCEPT !.UpdatedTs = t]

\* the error that aborts the step, Nil when it completes
UpError(devs, asets) ==
    IF \/ \E d \in MigDevIds : devs[d] # <<>> /\ ~Decodes(devs[d][1].IdData)
       \/ \E i \in DOMAIN asets : ~Decodes(asets[i].IdData)
    THEN ErrMalformedIdentity
    ELSE IF \E d \in MigDevIds : devs[d] # <<>> /\ AcceptedCount(asets, d) > 1
    THEN ErrMultipleAcceptedAuthSets
    ELSE Nil

AddDevice(d) ==
    /\ runs = 0
    /\ devices[d.Id] = <<>>
    /\ devices' = [devices EXCEPT ![d.Id] = <<d>>]
    /\ UNCHANGED <<authsets, runs, upErr, firstUp>>
    /\ UNCHANGED jwtVars

AddAuthSet(a) ==
    /\ runs = 0
    /\ Len(authsets) < MaxAuthSets
    /\ a.Id = Len(authsets) + 1
    /\ authsets' = Append(authsets, a)
    /\ UNCHANGED <<devices, runs, upErr, firstUp>>
    /\ UNCHANGED jwtVars

\* migration_1_5_0.Up; a step that completes runs a second after the
\* previous one and stamps the rows it changes with that time
Up ==
    /\ runs < MaxRuns
    /\ upErr' = UpError(devices, authsets)
    /\ IF UpError(devices, authsets) # Nil
       THEN UNCHANGED <<now, devices, authsets, runs, firstUp>>
       ELSE /\ now' = now + 1
            /\ devices' = [d \in MigDevIds |->
                              IF devices[d] = <<>> THEN <<>>
                              ELSE <<MigrateDevice(devices[d][1], authsets, now')>>]
            /\ authsets' = [i \in DOMAIN authsets |-> MigrateAuthSet(authsets[i])]
            /\ runs' = runs + 1
            /\ firstUp' = IF runs = 0
                          THEN <<[before |-> [devices |-> devices, authsets |-> authsets],
                                  after |-> [devices |-> devices', authsets |-> authsets']]>>
                          ELSE firstUp
    /\ UNCHANGED <<cfg, agent, newErr, issued, last>>

InitMig ==
    /\ now = Epoch
    /\ cfg = <<>>
    /\ agent = <<>>
    /\ newErr = Nil
    /\ issued = <<>>
    /\ last = <<>>
    /\ devices = [d \in MigDevIds |-> <<>>]
    /\ authsets = <<>>
    /\ runs = 0
    /\ upErr = Nil
    /\ firstUp = <<>>

NextMig ==
    \/ \E d \in DeviceRows : AddDevice(d)
    \/ \E a \in AuthSetRows : AddAuthSet(a)
    \/ Up

SpecMig == InitMig /\ [][NextMig]_vars

-----------------------------------------------------------------------------
(* Claims about migration 1.5.0 *)

\* C4: after the step has completed, every device's persisted status is
\* accepted if one of its auth sets is accepted, else pending if one is
\* pending, else rejected (also with no auth set), and is what
\* GetDeviceStatus returns; no device is accepted without an accepted auth set.
C4_StatusDerived ==
    runs >= 1 =>
        \A d \in MigDevIds : devices[d] # <<>> =>
            LET st == StatusesOf(authsets, d)
                row == devices[d][1]
            IN /\ "accepted" \in st => row.Status = "accepted"
               /\ ("accepted" \notin st /\ "pending" \in st) => row.Status = "pending"
               /\ ("accepted" \notin st /\ "pending" \notin st) => row.Status = "rejected"
               /\ GetDeviceStatus(devices, authsets, d) = [status |-> row.Status, err |-> Nil]
               /\ row.Status = "accepted" => AcceptedCount(authsets, d) >= 1

\* a device inserted as accepted that has no auth set, and one inserted as
\* rejected whose auth sets are rejected and pending
C4_Witness ==
    /\ runs = 1
    /\ firstUp[1].before.devices["1"] # <<>>
    /\ firstUp[1].before.devices["1"][1].Status = "accepted"
    /\ StatusesOf(authsets, "1") = {}
    /\ devices["1"][1].Status = "rejected"
    /\ firstUp[1].before.devices["2"] # <<>>
    /\ firstUp[1].before.devices["2"][1].Status = "rejected"
    /\ StatusesOf(authsets, "2") = {"rejected", "pending"}
    /\ devices["2"][1].Status = "pending"

C6_Idempotent ==
    runs >= 2 =>
        /\ devices = firstUp[1].after.devices
        /\ authsets = firstUp[1].after.authsets

\* the second run ended a second after the first had stamped a device
C6_Witness ==
    /\ runs = 2
    /\ now = Epoch + 2
    /\ devices["1"] # <<>>
    /\ devices["1"][1].UpdatedTs = Epoch + 1
    /\ firstUp[1].before.devices["1"][1].Status # devices["1"][1].Status
    /\ Len(authsets) = 2

====
